---------------------------- MODULE Spec2Model ----------------------------
(***************************************************************************)
(* A model of the audio-tone codec of ishan211/audio_analyze:              *)
(*   - the bit classifier frequenciesToByte      (src/freq_analyzer.cpp)   *)
(*   - the tone selection of the multi-tone sine_gen variants              *)
(*     (src/unnamed/part_002 and src/sine_generator.cpp)                   *)
(*   - the peak extractor getTop8Frequencies     (src/freq_analyzer.cpp)   *)
(*   - the recursive fft and the decode loop of main (src/freq_analyzer.cpp)*)
(*   - the parsers and the sample loop of sine_gen                         *)
(*     (src/sine_generator.cpp, src/unnamed/part_002)                      *)
(*                                                                         *)
(* Frequencies are integers counted in units of 1/UnitsPerHz Hz, so that a *)
(* distance just below the 50 Hz tolerance (49.9 Hz) is representable.     *)
(* Samples are integers (a fixed-point reading of the doubles of the code).*)
(***************************************************************************)
EXTENDS Integers, Sequences, FiniteSets, TLC

VARIABLES
    \* --- classifier / tone selection (frequenciesToByte, sine_gen) ---
    cpc,                  \* "synth" | "detected" | "classified" | "idle"
    variant,              \* which sine_gen selected the tones, or "none"
    srcByte,              \* current_byte of sine_gen
    detectedFrequencies,  \* the argument of frequenciesToByte
    bits,                 \* bits[0..7] of frequenciesToByte
    closestFreqs,         \* closestFreqs[0..7] of frequenciesToByte
    byteValue,            \* the value frequenciesToByte returns
    \* --- peak extractor (getTop8Frequencies) ---
    ppc,                  \* "spectrum" | "ranked" | "idle"
    pkN,                  \* the argument N
    pkRate,               \* the argument sampleRate, in Hz
    fftResult,            \* the argument fftResult; bin i is element i + 1
    topFrequencies,       \* the vector getTop8Frequencies returns
    \* --- decode loop (main of freq_analyzer.cpp) ---
    lpc,                  \* "loop" | "done" | "idle"
    numChannels,          \* sfinfo.channels
    sampleRate,           \* sfinfo.samplerate, in Hz
    file,                 \* the frames of the audio source, in order
    filePos,              \* frames of the source read so far
    buffer,               \* std::vector<double> buffer; index k is element k + 1
    fftInput,             \* CArray fftInput; index k is element k + 1
    readSamples,          \* what the last sf_readf_double returned
    asciiMessage,         \* std::vector<char> asciiMessage, as bytes 0..255
    framesRead,           \* history: the frames the last read returned
    window,               \* history: the real parts handed to the last fft
    \* --- synthesizer (binary_to_bits, binary_to_bytes, sine_gen) ---
    spc,                  \* "parse" | "plan" | "render" | "written" | "threw" | "idle"
    synVariant,           \* which sine_gen runs, or "none"
    msg,                  \* the argument msg, a sequence of characters
    bytes,                \* the vector binary_to_bytes (binary_to_bits) returned
    bps,                  \* the argument bps
    sample_rate,          \* sample_rate_khz * 1000.0, in Hz
    num_samples,          \* uint32_t num_samples
    data_bytes,           \* header.data_bytes
    wav_size,             \* header.wav_size
    sample_i,             \* the loop index i of the sample loop
    samples,              \* per sample written, the tones summed into it
    byte_indices,         \* history: byte_index (bit_index) of each sample so far
    clamped,              \* history: the samples whose index the clamp changed
    \* --- fft, statement by statement ---
    fpc,                  \* "run" | "done" | "undefined" | "idle"
    finput,               \* the array fft was first called on
    fstack,               \* the activations of fft, the innermost last
    fresult               \* the array after the outermost call returned

clsVars == <<cpc, variant, srcByte, detectedFrequencies, bits, closestFreqs, byteValue>>

pkVars == <<ppc, pkN, pkRate, fftResult, topFrequencies>>

loopVars == <<lpc, numChannels, sampleRate, file, filePos, buffer, fftInput,
              readSamples, asciiMessage, framesRead, window>>

synVars == <<spc, synVariant, msg, bytes, bps, sample_rate, num_samples,
             data_bytes, wav_size, sample_i, samples, byte_indices, clamped>>

fftVars == <<fpc, finput, fstack, fresult>>

auxVars == <<synVars, fftVars>>

vars == <<clsVars, pkVars, loopVars, auxVars>>

-----------------------------------------------------------------------------
(* Units and program constants                                             *)

\* Model units per Hz (10: one unit is 0.1 Hz).
UnitsPerHz == 10

\* `diff0 < 50`, `diff1 < 50` in frequenciesToByte, in Hz.
Tolerance == 50

\* `double minDiff = 1000.0` in frequenciesToByte, in Hz.
InitMinDiff == 1000

Hz(x) == x * UnitsPerHz

\* bitFrequencyPairs (freq_analyzer.cpp) and freq_table (both sine_gen
\* variants hold the same eight pairs), in Hz; position i is element i + 1.
bitFrequencyPairs ==
    << <<300, 500>>,
       <<700, 900>>,
       <<1100, 1300>>,
       <<1500, 1700>>,
       <<1900, 2100>>,
       <<2300, 2500>>,
       <<2700, 2900>>,
       <<3100, 3300>> >>

Positions == 0..7

\* bitFrequencyPairs[i].first / .second, in model units.
LowTone(i)  == Hz(bitFrequencyPairs[i + 1][1])
HighTone(i) == Hz(bitFrequencyPairs[i + 1][2])

Abs(x) == IF x < 0 THEN -x ELSE x

RECURSIVE Pow2(_)
Pow2(n) == IF n = 0 THEN 1 ELSE 2 * Pow2(n - 1)

\* (b >> k) & 1 on an 8-bit value.
BitAt(b, k) == (b \div Pow2(k)) % 2

-----------------------------------------------------------------------------
(* sine_gen: the tone selected for each table position                     *)

Variants == {"part_002", "sine_generator"}

\* part_002:            bool bit_value = (current_byte >> (7 - bit)) & 1;
BitValueMsbFirst(b, bit) == BitAt(b, 7 - bit)

\* sine_generator.cpp:  bool bit_value = (current_byte >> bit) & 1;
BitValueLsbFirst(b, bit) == BitAt(b, bit)

\* double freq = freq_table[bit][bit_value];
FreqTable(bit, bitValue) == IF bitValue = 1 THEN HighTone(bit) ELSE LowTone(bit)

\* The eight tones summed into one sample of byte b, in table order.
SineGenTones(v, b) ==
    [k \in 1..8 |->
        FreqTable(k - 1, IF v = "part_002" THEN BitValueMsbFirst(b, k - 1)
                                           ELSE BitValueLsbFirst(b, k - 1))]

-----------------------------------------------------------------------------
(* frequenciesToByte                                                       *)

\* A faulty variant of Accepts: an equal distance replaces the earlier one.
AcceptsLaterTie(diff, minDiff) == diff < Hz(Tolerance) /\ diff <= minDiff

\* A faulty variant of Accepts: a non-strict tolerance comparison.
AcceptsInclusive(diff, minDiff) == diff <= Hz(Tolerance) /\ diff < minDiff

\* `diff < 50 && diff < minDiff`
Accepts(diff, minDiff) == diff < Hz(Tolerance) /\ diff < minDiff

\* One iteration of `for (double freq : detectedFrequencies)` at position i.
ScanStep(st, freq, i) ==
    LET diff0 == Abs(freq - LowTone(i))
        diff1 == Abs(freq - HighTone(i))
        s0 == IF Accepts(diff0, st.minDiff)
              THEN [bit0Detected |-> TRUE, bit1Detected |-> FALSE,
                    minDiff |-> diff0, closestFreq |-> freq]
              ELSE st
    IN  IF Accepts(diff1, s0.minDiff)
        THEN [bit0Detected |-> FALSE, bit1Detected |-> TRUE,
              minDiff |-> diff1, closestFreq |-> freq]
        ELSE s0

\* The state at the top of the scan of position i.
ScanInit == [bit0Detected |-> FALSE, bit1Detected |-> FALSE,
             minDiff |-> Hz(InitMinDiff), closestFreq |-> 0]

RECURSIVE ScanFrom(_, _, _, _)
ScanFrom(freqs, k, st, i) ==
    IF k > Len(freqs) THEN st
    ELSE ScanFrom(freqs, k + 1, ScanStep(st, freqs[k], i), i)

\* The whole inner loop for position i.
Scan(freqs, i) == ScanFrom(freqs, 1, ScanInit, i)

\* A faulty variant of BitOf: an unmatched position reads as 1.
BitOfDefaultOne(st) == IF st.bit0Detected THEN 0 ELSE 1

\* `bits[i] = bit1Detected ? 1 : 0;`
BitOf(st) == IF st.bit1Detected THEN 1 ELSE 0

ClassifyBits(freqs) == [i \in Positions |-> BitOf(Scan(freqs, i))]

ClassifyFreqs(freqs) == [i \in Positions |-> Scan(freqs, i).closestFreq]

\* A faulty variant of BitWeight: position i sets bit i of the byte.
BitWeightLsbFirst(i) == Pow2(i)

\* `byteValue |= (1 << (7 - i));`
BitWeight(i) == Pow2(7 - i)

\* acc | w for a one-bit mask w.
OrMask(acc, w) == IF (acc \div w) % 2 = 1 THEN acc ELSE acc + w

\* for (i = 0; i < 8; ++i) if (bits[i]) byteValue |= (1 << (7 - i));
RECURSIVE AssembleFrom(_, _, _)
AssembleFrom(bs, i, acc) ==
    IF i > 7 THEN acc
    ELSE AssembleFrom(bs, i + 1, IF bs[i] # 0 THEN OrMask(acc, BitWeight(i)) ELSE acc)

AssembleByte(bs) == AssembleFrom(bs, 0, 0)

\* The value frequenciesToByte returns.
FrequenciesToByteValue(freqs) == AssembleByte(ClassifyBits(freqs))

-----------------------------------------------------------------------------
(* The classifier harness: tones selected by sine_gen, or probe lists,     *)
(* handed to frequenciesToByte.                                            *)

\* Longest probe list of detected frequencies.
MaxDetected == 2

\* Offsets from a table tone, in model units: on the tone, one unit inside
\* the tolerance (49.9 Hz), on the tolerance (50 Hz), one unit outside.
ProbeOffsets ==
    {0, Hz(Tolerance) - 1, -(Hz(Tolerance) - 1), Hz(Tolerance), -Hz(Tolerance),
     Hz(Tolerance) + 1, Hz(1), -Hz(1)}

AllTones == {LowTone(i) : i \in Positions} \cup {HighTone(i) : i \in Positions}

\* Every table tone with every offset: the single-frequency probes.
SingleProbes == {t + d : t \in AllTones, d \in ProbeOffsets}

\* The frequencies of the longer probe lists: around positions 0 and 7.
ListProbes ==
    {t + d : t \in {LowTone(0), HighTone(0), HighTone(7)},
             d \in {0, Hz(Tolerance) - 1, Hz(Tolerance), Hz(1), -Hz(1)}}

RECURSIVE SeqsUpTo(_, _)
SeqsUpTo(S, n) ==
    IF n = 0 THEN {<<>>}
    ELSE LET shorter == SeqsUpTo(S, n - 1)
         IN  shorter \cup {Append(q, x) : q \in {r \in shorter : Len(r) = n - 1}, x \in S}

Probes == {<<f>> : f \in SingleProbes} \cup SeqsUpTo(ListProbes, MaxDetected)

NoBits == [i \in Positions |-> 0]

ClsIdle ==
    /\ cpc = "idle"
    /\ variant = "none"
    /\ srcByte = 0
    /\ detectedFrequencies = <<>>
    /\ bits = NoBits
    /\ closestFreqs = NoBits
    /\ byteValue = 0

PkIdle ==
    /\ ppc = "idle"
    /\ pkN = 0
    /\ pkRate = 0
    /\ fftResult = <<>>
    /\ topFrequencies = <<>>

LoopIdle ==
    /\ lpc = "idle"
    /\ numChannels = 0
    /\ sampleRate = 0
    /\ file = <<>>
    /\ filePos = 0
    /\ buffer = <<>>
    /\ fftInput = <<>>
    /\ readSamples = 0
    /\ asciiMessage = <<>>
    /\ framesRead = <<>>
    /\ window = <<>>

SynIdle ==
    /\ spc = "idle"
    /\ synVariant = "none"
    /\ msg = <<>>
    /\ bytes = <<>>
    /\ bps = 0
    /\ sample_rate = 0
    /\ num_samples = 0
    /\ data_bytes = 0
    /\ wav_size = 0
    /\ sample_i = 0
    /\ samples = <<>>
    /\ byte_indices = <<>>
    /\ clamped = {}

FftIdle ==
    /\ fpc = "idle"
    /\ finput = <<>>
    /\ fstack = <<>>
    /\ fresult = <<>>

AuxIdle == SynIdle /\ FftIdle

InitClassify ==
    /\ PkIdle
    /\ LoopIdle
    /\ AuxIdle
    /\ bits = NoBits
    /\ closestFreqs = NoBits
    /\ byteValue = 0
    /\ \/ /\ cpc = "synth"
          /\ variant \in Variants
          /\ srcByte \in 0..255
          /\ detectedFrequencies = <<>>
       \/ /\ cpc = "detected"
          /\ variant = "none"
          /\ srcByte = 0
          /\ detectedFrequencies \in Probes

\* sine_gen, the inner loop over the eight bit positions of current_byte.
SineGen ==
    /\ cpc = "synth"
    /\ detectedFrequencies' = SineGenTones(variant, srcByte)
    /\ cpc' = "detected"
    /\ UNCHANGED <<variant, srcByte, bits, closestFreqs, byteValue>>
    /\ UNCHANGED <<pkVars, loopVars, auxVars>>

\* int frequenciesToByte(const std::vector<double>& detectedFrequencies)
FrequenciesToByte ==
    /\ cpc = "detected"
    /\ bits' = ClassifyBits(detectedFrequencies)
    /\ closestFreqs' = ClassifyFreqs(detectedFrequencies)
    /\ byteValue' = FrequenciesToByteValue(detectedFrequencies)
    /\ cpc' = "classified"
    /\ UNCHANGED <<variant, srcByte, detectedFrequencies>>
    /\ UNCHANGED <<pkVars, loopVars, auxVars>>

NextClassify == SineGen \/ FrequenciesToByte

SpecClassify == InitClassify /\ [][NextClassify]_vars

-----------------------------------------------------------------------------
(* getTop8Frequencies                                                      *)

\* `i < 8` in the loop that fills topFrequencies.
TopCount == 8

Min(a, b) == IF a < b THEN a ELSE b

\* A complex number is <<re, im>>.
Re(z) == z[1]
Im(z) == z[2]

\* std::abs(fftResult[i]), as its square: the squares order as the
\* magnitudes do.
Magnitude(z) == Re(z) * Re(z) + Im(z) * Im(z)

\* for (i = 1; i < N / 2; ++i) magnitudes.emplace_back(magnitude, i);
Magnitudes(spectrum, N) ==
    [k \in 1..(IF N \div 2 > 1 THEN N \div 2 - 1 ELSE 0) |->
        <<Magnitude(spectrum[k + 1]), k>>]

\* A faulty variant of PairGreater: equal magnitudes keep the lower bin first.
PairGreaterLowBinFirst(a, b) == a[1] > b[1] \/ (a[1] = b[1] /\ a[2] < b[2])

\* std::greater<> on std::pair<double, int>: lexicographic.
PairGreater(a, b) == a[1] > b[1] \/ (a[1] = b[1] /\ a[2] > b[2])

\* p put into the descending sequence q at its place.
RECURSIVE InsertDesc(_, _)
InsertDesc(p, q) ==
    IF q = <<>> THEN <<p>>
    ELSE IF PairGreater(p, Head(q)) THEN <<p>> \o q
    ELSE <<Head(q)>> \o InsertDesc(p, Tail(q))

\* std::sort(magnitudes.begin(), magnitudes.end(), std::greater<>());
RECURSIVE SortDesc(_)
SortDesc(q) == IF q = <<>> THEN <<>> ELSE InsertDesc(Head(q), SortDesc(Tail(q)))

\* double frequency = (peakIndex * sampleRate) / N;  in model units.  The
\* sample rates of the model are multiples of N / UnitsPerHz, so the
\* quotient is exact.
BinFrequency(peakIndex, rate, N) == (peakIndex * rate * UnitsPerHz) \div N

\* for (i = 0; i < 8 && i < magnitudes.size(); ++i) ... push_back(frequency);
GetTop8Frequencies(spectrum, N, rate) ==
    LET sorted == SortDesc(Magnitudes(spectrum, N))
    IN  [k \in 1..Min(TopCount, Len(sorted)) |->
            BinFrequency(sorted[k][2], rate, N)]

-----------------------------------------------------------------------------
(* fft: the recursive Cooley-Tukey transform, in fixed point               *)

\* The 1.0 of std::polar(1.0, ...) in fixed point.
PolarUnit == 1000

\* std::polar(1.0, -2 * M_PI * k / N) for N = 1 .. 22 and k = 0 .. N/2 - 1,
\* rounded to 1/PolarUnit: element N holds the twiddles of length N, its
\* element k + 1 the one of k.
PolarTable ==
    <<
       <<>>,
       << <<1000, 0>> >>,
       << <<1000, 0>> >>,
       << <<1000, 0>>, <<0, -1000>> >>,
       << <<1000, 0>>, <<309, -951>> >>,
       << <<1000, 0>>, <<500, -866>>, <<-500, -866>> >>,
       << <<1000, 0>>, <<623, -782>>, <<-223, -975>> >>,
       << <<1000, 0>>, <<707, -707>>, <<0, -1000>>, <<-707, -707>> >>,
       << <<1000, 0>>, <<766, -643>>, <<174, -985>>, <<-500, -866>> >>,
       << <<1000, 0>>, <<809, -588>>, <<309, -951>>, <<-309, -951>>,
         <<-809, -588>> >>,
       << <<1000, 0>>, <<841, -541>>, <<415, -910>>, <<-142, -990>>,
         <<-655, -756>> >>,
       << <<1000, 0>>, <<866, -500>>, <<500, -866>>, <<0, -1000>>,
         <<-500, -866>>, <<-866, -500>> >>,
       << <<1000, 0>>, <<885, -465>>, <<568, -823>>, <<121, -993>>,
         <<-355, -935>>, <<-749, -663>> >>,
       << <<1000, 0>>, <<901, -434>>, <<623, -782>>, <<223, -975>>,
         <<-223, -975>>, <<-623, -782>>, <<-901, -434>> >>,
       << <<1000, 0>>, <<914, -407>>, <<669, -743>>, <<309, -951>>,
         <<-105, -995>>, <<-500, -866>>, <<-809, -588>> >>,
       << <<1000, 0>>, <<924, -383>>, <<707, -707>>, <<383, -924>>,
         <<0, -1000>>, <<-383, -924>>, <<-707, -707>>, <<-924, -383>> >>,
       << <<1000, 0>>, <<932, -361>>, <<739, -674>>, <<446, -895>>,
         <<92, -996>>, <<-274, -962>>, <<-603, -798>>, <<-850, -526>> >>,
       << <<1000, 0>>, <<940, -342>>, <<766, -643>>, <<500, -866>>,
         <<174, -985>>, <<-174, -985>>, <<-500, -866>>, <<-766, -643>>,
         <<-940, -342>> >>,
       << <<1000, 0>>, <<946, -325>>, <<789, -614>>, <<547, -837>>,
         <<245, -969>>, <<-83, -997>>, <<-402, -916>>, <<-677, -736>>,
         <<-879, -476>> >>,
       << <<1000, 0>>, <<951, -309>>, <<809, -588>>, <<588, -809>>,
         <<309, -951>>, <<0, -1000>>, <<-309, -951>>, <<-588, -809>>,
         <<-809, -588>>, <<-951, -309>> >>,
       << <<1000, 0>>, <<956, -295>>, <<826, -563>>, <<623, -782>>,
         <<365, -931>>, <<75, -997>>, <<-223, -975>>, <<-500, -866>>,
         <<-733, -680>>, <<-901, -434>> >>,
       << <<1000, 0>>, <<959, -282>>, <<841, -541>>, <<655, -756>>,
         <<415, -910>>, <<142, -990>>, <<-142, -990>>, <<-415, -910>>,
         <<-655, -756>>, <<-841, -541>>, <<-959, -282>> >>
    >>

Polar(k, N) == PolarTable[N][k + 1]

\* x / PolarUnit rounded to the nearest integer.
Rescale(x) == (x + PolarUnit \div 2) \div PolarUnit

CAdd(a, b) == <<Re(a) + Re(b), Im(a) + Im(b)>>
CSub(a, b) == <<Re(a) - Re(b), Im(a) - Im(b)>>

\* A twiddle (scaled by PolarUnit) times a complex number.
CMul(w, z) == <<Rescale(Re(w) * Re(z) - Im(w) * Im(z)),
                Rescale(Re(w) * Im(z) + Im(w) * Re(z))>>

\* void fft(CArray& data): the array after the call.  even and odd hold
\* N / 2 elements each, so for odd N the last element is neither read nor
\* written.
RECURSIVE Fft(_)
Fft(data) ==
    LET N == Len(data)
        half == N \div 2
    IN  IF N <= 1 THEN data
        ELSE LET even == Fft([i \in 1..half |-> data[2 * (i - 1) + 1]])
                 odd  == Fft([i \in 1..half |-> data[2 * (i - 1) + 2]])
                 t(k) == CMul(Polar(k, N), odd[k + 1])
             IN  [j \in 1..N |->
                    IF j - 1 < half THEN CAdd(even[j], t(j - 1))
                    ELSE IF j - 1 < 2 * half THEN CSub(even[j - half], t(j - 1 - half))
                    ELSE data[j]]

-----------------------------------------------------------------------------
(* The peak-extractor harness: spectra handed to getTop8Frequencies.       *)

\* Longest spectrum of the harness.
MaxN == 21

\* Values of the bins: magnitudes 5, 5 and 6.
BinValues == {<<3, 4>>, <<-5, 0>>, <<0, -6>>}

\* Hz per bin (sampleRate / N) of the harness.
Resolutions == {1, 100}

\* Spectra of length N: the bins the extractor never reads (bin 0 and the
\* upper half) are zero.
SpectraOf(N) ==
    {[k \in 1..N |-> IF k - 1 \in 1..(N \div 2 - 1) THEN g[k - 1] ELSE <<0, 0>>] :
        g \in [1..(IF N \div 2 > 1 THEN N \div 2 - 1 ELSE 0) -> BinValues]}

InitPeaks ==
    /\ ClsIdle
    /\ LoopIdle
    /\ AuxIdle
    /\ ppc = "spectrum"
    /\ pkN \in 2..MaxN
    /\ \E r \in Resolutions : pkRate = pkN * r
    /\ fftResult \in SpectraOf(pkN)
    /\ topFrequencies = <<>>

\* std::vector<double> getTop8Frequencies(const CArray&, int N, double sampleRate)
GetTop8 ==
    /\ ppc = "spectrum"
    /\ topFrequencies' = GetTop8Frequencies(fftResult, pkN, pkRate)
    /\ ppc' = "ranked"
    /\ UNCHANGED <<pkN, pkRate, fftResult>>
    /\ UNCHANGED <<clsVars, loopVars, auxVars>>

NextPeaks == GetTop8

SpecPeaks == InitPeaks /\ [][NextPeaks]_vars

-----------------------------------------------------------------------------
(* main of freq_analyzer.cpp: the decode loop                              *)

\* CHUNK_SIZE, the frames asked of each read and the length of the
\* transform (44100 in the source), scaled down.
CHUNK_SIZE == 20

\* MIN_SAMPLES, the threshold below which a read is skipped (44000 in the
\* source), scaled down with CHUNK_SIZE.
MIN_SAMPLES == 18

\* Most channels of a source.
MaxChannels == 2

\* Most full windows of a source.
MaxWindows == 2

Zeros(n) == [k \in 1..n |-> 0]

\* What sf_readf_double(file, buffer.data(), CHUNK_SIZE) returns: the frames
\* left in the source, at most CHUNK_SIZE.
ReadCount == Min(CHUNK_SIZE, Len(file) - filePos)

\* The frames that read delivers.
FramesOfRead == SubSeq(file, filePos + 1, filePos + ReadCount)

\* buffer after sf_readf_double stored `frames` interleaved from index 0;
\* what lies past them is left as it was.
AfterRead(buf, frames, nc) ==
    [k \in 1..Len(buf) |->
        IF k - 1 < Len(frames) * nc
        THEN frames[((k - 1) \div nc) + 1][((k - 1) % nc) + 1]
        ELSE buf[k]]

\* A faulty variant of TooShort: the threshold one frame lower.
TooShortOffByOne(r) == r < MIN_SAMPLES - 1

\* `if (readSamples < MIN_SAMPLES) continue;`
TooShort(r) == r < MIN_SAMPLES

\* A faulty variant of ZeroPad: nothing is filled.
ZeroPadNone(buf, r) == buf

\* std::fill(buffer.begin() + readSamples, buffer.end(), 0);
ZeroPad(buf, r) == [k \in 1..Len(buf) |-> IF k - 1 >= r THEN 0 ELSE buf[k]]

\* for (ch = 0; ch < numChannels; ++ch) buffer[i] += buffer[i * numChannels + ch];
RECURSIVE AddChannels(_, _, _, _)
AddChannels(buf, i, ch, nc) ==
    IF ch >= nc THEN buf
    ELSE AddChannels([buf EXCEPT ![i + 1] = buf[i + 1] + buf[i * nc + ch + 1]],
                     i, ch + 1, nc)

\* The body of the down-mix loop for frame i, in place:
\*   buffer[i] = 0; (sum the channels); buffer[i] /= numChannels;
MixFrame(buf, i, nc) ==
    LET summed == AddChannels([buf EXCEPT ![i + 1] = 0], i, 0, nc)
    IN  [summed EXCEPT ![i + 1] = summed[i + 1] \div nc]

\* The down-mix loop from frame i on.  The buffer of each iteration is bound
\* by a quantifier so that it is evaluated once, before the next iteration.
RECURSIVE MixFrom(_, _, _, _)
MixFrom(buf, i, r, nc) ==
    IF i >= r THEN buf
    ELSE CHOOSE out \in {MixFrom(b, i + 1, r, nc) : b \in {MixFrame(buf, i, nc)}} : TRUE

\* `if (numChannels > 1) { for (i = 0; i < readSamples; ++i) ... }`
DownMix(buf, r, nc) == IF nc > 1 THEN MixFrom(buf, 0, r, nc) ELSE buf

\* buffer at the end of a cycle that is not skipped.
Normalize(buf, frames, nc) ==
    DownMix(ZeroPad(AfterRead(buf, frames, nc), Len(frames)), Len(frames), nc)

\* for (i = 0; i < CHUNK_SIZE; i++) fftInput[i] = Complex(buffer[i], 0.0);
ToComplex(buf) == [k \in 1..CHUNK_SIZE |-> <<buf[k], 0>>]

\* static_cast<char>(byteValue), as the byte it holds.
ToChar(v) == v % 256

\* frequenciesToByte(getTop8Frequencies(fftInput, CHUNK_SIZE, sampleRate))
\* on the transformed fftInput.
ByteOfSpectrum(spectrum, rate) ==
    ToChar(FrequenciesToByteValue(GetTop8Frequencies(spectrum, CHUNK_SIZE, rate)))

\* A faulty variant of PushBack: the byte put at the front.
PushFront(message, b) == <<b>> \o message

\* asciiMessage.push_back(...)
PushBack(message, b) == Append(message, b)

-----------------------------------------------------------------------------
(* The audio sources of the model                                          *)

\* One period (20 frames) of three waveforms, as fixed-point samples: the
\* tones of bins 3, 5 and 7 of a 20-frame window.
WaveA == <<300, 174, -90, -288, -240, 0, 240, 288, 90, -174,
           -300, -174, 90, 288, 240, 0, -240, -288, -90, 174>>
WaveB == <<300, 0, -300, 0, 300, 0, -300, 0, 300, 0,
           -300, 0, 300, 0, -300, 0, 300, 0, -300, 0>>
WaveC == <<300, -174, -90, 288, -240, 0, 240, -288, 90, 174,
           -300, 174, 90, -288, 240, 0, -240, 288, -90, -174>>

Waves == <<WaveA, WaveB, WaveC>>

\* What the channels of a window carry: waveform A or B on every channel,
\* or a different waveform on each (A, B, C, A, ...).
Mixes == {"A", "B", "ABC"}

WaveOfChannel(m, ch) ==
    CASE m = "A" -> WaveA
      [] m = "B" -> WaveB
      [] OTHER   -> Waves[(ch % 3) + 1]

\* len frames of mix m on nc channels.
WindowFrames(m, len, nc) ==
    [i \in 1..len |-> [c \in 1..nc |-> WaveOfChannel(m, c - 1)[((i - 1) % 20) + 1]]]

\* Sources of k full windows.
RECURSIVE FullWindows(_, _)
FullWindows(k, nc) ==
    IF k = 0 THEN {<<>>}
    ELSE {f \o WindowFrames(m, CHUNK_SIZE, nc) : f \in FullWindows(k - 1, nc), m \in Mixes}

\* The lengths of a last, shorter window.
TailLengths == {1, MIN_SAMPLES - 1, MIN_SAMPLES, CHUNK_SIZE - 1}

Sources(nc) ==
    {f \o t : f \in UNION {FullWindows(k, nc) : k \in 0..MaxWindows},
              t \in {<<>>} \cup {WindowFrames(m, l, nc) : m \in Mixes, l \in TailLengths}}

\* Hz per bin (sampleRate / CHUNK_SIZE) of the sources.
SourceResolutions == {100, 300}

-----------------------------------------------------------------------------
(* The decode loop as a state machine                                      *)

Init ==
    /\ ClsIdle
    /\ PkIdle
    /\ AuxIdle
    /\ lpc = "loop"
    /\ numChannels \in 1..MaxChannels
    /\ \E r \in SourceResolutions : sampleRate = CHUNK_SIZE * r
    /\ file \in Sources(numChannels)
    /\ filePos = 0
    /\ buffer = Zeros(CHUNK_SIZE * numChannels)
    /\ fftInput = [k \in 1..CHUNK_SIZE |-> <<0, 0>>]
    /\ readSamples = 0
    /\ asciiMessage = <<>>
    /\ framesRead = <<>>
    /\ window = <<>>

\* The read returns 0: the loop ends, the source is closed.
ReadEof ==
    /\ lpc = "loop"
    /\ ReadCount = 0
    /\ readSamples' = 0
    /\ framesRead' = <<>>
    /\ lpc' = "done"
    /\ UNCHANGED <<numChannels, sampleRate, file, filePos, buffer, fftInput,
                   asciiMessage, window>>
    /\ UNCHANGED <<clsVars, pkVars, auxVars>>

\* A cycle whose read is below the threshold: `continue`.
ReadSkip ==
    /\ lpc = "loop"
    /\ ReadCount > 0
    /\ TooShort(ReadCount)
    /\ readSamples' = ReadCount
    /\ framesRead' = FramesOfRead
    /\ filePos' = filePos + ReadCount
    /\ buffer' = AfterRead(buffer, FramesOfRead, numChannels)
    /\ UNCHANGED <<lpc, numChannels, sampleRate, file, fftInput, asciiMessage, window>>
    /\ UNCHANGED <<clsVars, pkVars, auxVars>>

\* A cycle that decodes: pad, down-mix, transform, rank, classify, append.
ReadDecode ==
    /\ lpc = "loop"
    /\ ReadCount > 0
    /\ ~TooShort(ReadCount)
    /\ readSamples' = ReadCount
    /\ framesRead' = FramesOfRead
    /\ filePos' = filePos + ReadCount
    /\ buffer' = Normalize(buffer, FramesOfRead, numChannels)
    /\ window' = [k \in 1..CHUNK_SIZE |-> buffer'[k]]
    /\ fftInput' = Fft(ToComplex(buffer'))
    /\ asciiMessage' = PushBack(asciiMessage, ByteOfSpectrum(fftInput', sampleRate))
    /\ UNCHANGED <<lpc, numChannels, sampleRate, file>>
    /\ UNCHANGED <<clsVars, pkVars, auxVars>>

Next == ReadEof \/ ReadSkip \/ ReadDecode

Spec == Init /\ [][Next]_vars

-----------------------------------------------------------------------------
(* The synthesizer: binary_to_bits, binary_to_bytes and sine_gen           *)
(* (src/sine_generator.cpp, src/unnamed/part_002)                          *)

\* The sine_gen variants: the single-tone one of src/sine_generator.cpp and
\* the two multi-tone ones.
SynthVariants == {"single_tone"} \cup Variants

\* Characters taken per byte: binary.substr(i, 8).
ByteChars == 8

\* std::vector<bool> binary_to_bits(const std::string& binary): '0' and '1'
\* are pushed, any other character is skipped with a warning.
RECURSIVE binary_to_bits(_)
binary_to_bits(binary) ==
    IF binary = <<>> THEN <<>>
    ELSE LET c == Head(binary)
             rest == binary_to_bits(Tail(binary))
         IN  IF c = "0" THEN <<0>> \o rest
             ELSE IF c = "1" THEN <<1>> \o rest
             ELSE rest

\* The leading white space std::stoi skips.
RECURSIVE SkipSpace(_)
SkipSpace(str) ==
    IF str # <<>> /\ Head(str) = " " THEN SkipSpace(Tail(str)) ELSE str

\* The base-2 digits std::stoi consumes: the longest prefix of digits.
RECURSIVE DigitPrefix(_)
DigitPrefix(str) ==
    IF str = <<>> \/ Head(str) \notin {"0", "1"} THEN <<>>
    ELSE <<Head(str)>> \o DigitPrefix(Tail(str))

\* The value of a string of base-2 digits, most significant first.
RECURSIVE DigitsValue(_, _)
DigitsValue(digits, acc) ==
    IF digits = <<>> THEN acc
    ELSE DigitsValue(Tail(digits), 2 * acc + (IF Head(digits) = "1" THEN 1 ELSE 0))

\* std::stoi(byte_str, nullptr, 2): white space, an optional sign, then
\* digits up to the first other character; std::invalid_argument is thrown
\* when there is no digit.
Stoi(byte_str) ==
    LET str == SkipSpace(byte_str)
        signed == str # <<>> /\ Head(str) \in {"-", "+"}
        digits == DigitPrefix(IF signed THEN Tail(str) ELSE str)
        v == DigitsValue(digits, 0)
    IN  IF digits = <<>> THEN [thrown |-> TRUE, value |-> 0]
        ELSE [thrown |-> FALSE,
              value |-> IF signed /\ Head(str) = "-" THEN 0 - v ELSE v]

\* static_cast<uint8_t>(int)
ToUint8(v) == ((v % 256) + 256) % 256

\* std::vector<uint8_t> binary_to_bytes(const std::string& binary): the bytes
\* returned, or thrown when a std::stoi throws (nothing catches it).
RECURSIVE binary_to_bytes(_)
binary_to_bytes(binary) ==
    IF binary = <<>> THEN [thrown |-> FALSE, bytes |-> <<>>]
    ELSE LET byte_str == SubSeq(binary, 1, Min(ByteChars, Len(binary)))
             r == Stoi(byte_str)
             rest == binary_to_bytes(SubSeq(binary, ByteChars + 1, Len(binary)))
         IN  IF r.thrown \/ rest.thrown THEN [thrown |-> TRUE, bytes |-> <<>>]
             ELSE [thrown |-> FALSE, bytes |-> <<ToUint8(r.value)>> \o rest.bytes]

\* What a variant makes of its message: `bits` of the single-tone sine_gen,
\* `bytes` of the multi-tone ones.
ParseMessage(v, m) ==
    IF v = "single_tone" THEN [thrown |-> FALSE, bytes |-> binary_to_bits(m)]
    ELSE binary_to_bytes(m)

\* uint32_t num_samples = static_cast<uint32_t>(total_duration * sample_rate)
\* with total_duration = (1.0 / bps) * num_bytes: the product truncated.
\* bps is a power of two here, so the doubles of the code are exact; the
\* counts of the model stay far below the 2^32 at which uint32_t wraps.
NumSamples(n, rate, persec) == (n * rate) \div persec

\* header.bit_depth / 8
BytesPerSample == 2

\* header.data_bytes = num_samples * (header.bit_depth / 8)
DataBytes(n) == n * BytesPerSample

\* The header bytes that follow wav_size: 36 + header.data_bytes.
HeaderRest == 36

WavSize(d) == HeaderRest + d

\* A faulty variant of RawIndex: the index counted from one.
RawIndexFromOne(i, rate, persec) == (i * persec) \div rate + 1

\* static_cast<int>(t / bit_duration) with t = i / sample_rate.
RawIndex(i, rate, persec) == (i * persec) \div rate

\* `if (byte_index >= num_bytes) byte_index = num_bytes - 1;`
ClampIndex(raw, n) == IF raw >= n THEN n - 1 ELSE raw

\* The frequencies of the single-tone variant: freq_0 and freq_1.
SingleTone(bit) == IF bit = 1 THEN <<Hz(2000)>> ELSE <<Hz(1000)>>

\* The tones summed into a sample of unit `current`.
TonesOf(v, current) ==
    IF v = "single_tone" THEN SingleTone(current) ELSE SineGenTones(v, current)

-----------------------------------------------------------------------------
(* The synthesizer harness: messages and rates                             *)

\* Longest message over '0', '1' and 'x' handed to the parsers alone.
MaxMsgLen == 9

\* Longest message that also holds a sign or a blank.
MaxShortLen == 4

\* The messages handed to binary_to_bits and binary_to_bytes alone.
Messages ==
    SeqsUpTo({"0", "1", "x"}, MaxMsgLen)
        \cup SeqsUpTo({"0", "1", "x", "-", " "}, MaxShortLen)

\* Longest message of a whole sine_gen run.
MaxSynthChars == 10

\* The characters of "01000001" "01000010" ..., repeated.
PatternChar(k) == IF k % ByteChars \in {1, 7} THEN "1" ELSE "0"

\* The messages of a whole run: the prefixes of the pattern, and those with
\* one 'x' at the end.
SynthMessages ==
    {[k \in 1..l |-> PatternChar(k - 1)] : l \in 0..MaxSynthChars}
        \cup {[k \in 1..l |-> IF k = l THEN "x" ELSE PatternChar(k - 1)] :
                l \in 1..MaxSynthChars}

\* bps of a run: powers of two (1.0 / bps is then exact in a double).
Rates == {1, 2, 4, 8}

\* sample_rate of a run, in Hz (scaled down).
SampleRates == {5, 8, 12}

InitParse ==
    /\ ClsIdle
    /\ PkIdle
    /\ LoopIdle
    /\ FftIdle
    /\ spc = "parse"
    /\ synVariant \in SynthVariants
    /\ msg \in Messages
    /\ bytes = <<>>
    /\ bps = 0
    /\ sample_rate = 0
    /\ num_samples = 0
    /\ data_bytes = 0
    /\ wav_size = 0
    /\ sample_i = 0
    /\ samples = <<>>
    /\ byte_indices = <<>>
    /\ clamped = {}

InitSynth ==
    /\ ClsIdle
    /\ PkIdle
    /\ LoopIdle
    /\ FftIdle
    /\ spc = "parse"
    /\ synVariant \in SynthVariants
    /\ msg \in SynthMessages
    /\ bytes = <<>>
    /\ bps \in Rates
    /\ sample_rate \in SampleRates
    /\ num_samples = 0
    /\ data_bytes = 0
    /\ wav_size = 0
    /\ sample_i = 0
    /\ samples = <<>>
    /\ byte_indices = <<>>
    /\ clamped = {}

\* `bytes = binary_to_bytes(msg)` (`bits = binary_to_bits(msg)`): the vector
\* is returned, or the exception of std::stoi ends the program.
BinaryToBytes ==
    /\ spc = "parse"
    /\ LET r == ParseMessage(synVariant, msg)
       IN  /\ spc' = IF r.thrown THEN "threw" ELSE "plan"
           /\ bytes' = r.bytes
    /\ UNCHANGED <<synVariant, msg, bps, sample_rate, num_samples, data_bytes,
                   wav_size, sample_i, samples, byte_indices, clamped>>
    /\ UNCHANGED <<clsVars, pkVars, loopVars, fftVars>>

\* num_samples and the header fields that depend on it.
SizeWave ==
    /\ spc = "plan"
    /\ bps > 0
    /\ num_samples' = NumSamples(Len(bytes), sample_rate, bps)
    /\ data_bytes' = DataBytes(num_samples')
    /\ wav_size' = WavSize(data_bytes')
    /\ sample_i' = 0
    /\ spc' = "render"
    /\ UNCHANGED <<synVariant, msg, bytes, bps, sample_rate, samples,
                   byte_indices, clamped>>
    /\ UNCHANGED <<clsVars, pkVars, loopVars, fftVars>>

\* One iteration of `for (uint32_t i = 0; i < num_samples; i++)`.  A
\* byte_index outside bytes makes the read of bytes[byte_index] undefined.
RenderSample ==
    /\ spc = "render"
    /\ sample_i < num_samples
    /\ LET raw == RawIndex(sample_i, sample_rate, bps)
           byte_index == ClampIndex(raw, Len(bytes))
       IN  /\ byte_indices' = Append(byte_indices, byte_index)
           /\ clamped' = IF byte_index # raw THEN clamped \cup {sample_i} ELSE clamped
           /\ IF byte_index \in 0..(Len(bytes) - 1)
              THEN /\ samples' = Append(samples, TonesOf(synVariant, bytes[byte_index + 1]))
                   /\ sample_i' = sample_i + 1
                   /\ spc' = spc
              ELSE /\ spc' = "undefined"
                   /\ UNCHANGED <<samples, sample_i>>
    /\ UNCHANGED <<synVariant, msg, bytes, bps, sample_rate, num_samples,
                   data_bytes, wav_size>>
    /\ UNCHANGED <<clsVars, pkVars, loopVars, fftVars>>

\* The loop is over; the header and the samples are written, unless the
\* output file fails to open.
WriteWave ==
    /\ spc = "render"
    /\ sample_i >= num_samples
    /\ spc' \in {"written", "failed"}
    /\ UNCHANGED <<synVariant, msg, bytes, bps, sample_rate, num_samples,
                   data_bytes, wav_size, sample_i, samples, byte_indices, clamped>>
    /\ UNCHANGED <<clsVars, pkVars, loopVars, fftVars>>

NextParse == BinaryToBytes

SpecParse == InitParse /\ [][NextParse]_vars

NextSynth == BinaryToBytes \/ SizeWave \/ RenderSample \/ WriteWave

SpecSynth == InitSynth /\ [][NextSynth]_vars

-----------------------------------------------------------------------------
(* fft, statement by statement                                             *)
(* Each activation holds its array `data` (a reference to the caller's     *)
(* even or odd, written back when the call returns), its arrays even and   *)
(* odd, its position, and the indices it has used so far.                  *)

\* A faulty variant of HalfOf: rounded up.
HalfCeil(N) == (N + 1) \div 2

\* N / 2, the length of even and odd and the bound of both loops.
HalfOf(N) == N \div 2

\* The activation of fft(a).
Activation(a) ==
    [data |-> a, entry |-> a, N |-> Len(a), even |-> <<>>, odd |-> <<>>,
     pc |-> "entry", i |-> 0, used |-> {}, usedHalf |-> {}]

Top == fstack[Len(fstack)]

WithTop(f) == [fstack EXCEPT ![Len(fstack)] = f]

\* The stack after the innermost call returned with its array `a`: the
\* caller's even or odd is what the callee left, and the caller goes on.
Returned(a) ==
    IF Len(fstack) = 1 THEN <<>>
    ELSE LET caller == fstack[Len(fstack) - 1]
             resumed == IF caller.pc = "even"
                        THEN [caller EXCEPT !.even = a, !.pc = "callodd"]
                        ELSE [caller EXCEPT !.odd = a, !.pc = "combine", !.i = 0]
         IN  Append(SubSeq(fstack, 1, Len(fstack) - 2), resumed)

\* `if (N <= 1) return;`
FftBase ==
    /\ fpc = "run"
    /\ Top.pc = "entry"
    /\ Top.N <= 1
    /\ fstack' = Returned(Top.data)
    /\ fresult' = IF Len(fstack) = 1 THEN Top.data ELSE fresult
    /\ fpc' = IF Len(fstack) = 1 THEN "done" ELSE fpc
    /\ UNCHANGED finput
    /\ UNCHANGED <<clsVars, pkVars, loopVars, synVars>>

\* `CArray even(N / 2), odd(N / 2);`
FftAllocate ==
    /\ fpc = "run"
    /\ Top.pc = "entry"
    /\ Top.N > 1
    /\ fstack' = WithTop([Top EXCEPT !.even = [k \in 1..HalfOf(Top.N) |-> <<0, 0>>],
                                     !.odd = [k \in 1..HalfOf(Top.N) |-> <<0, 0>>],
                                     !.pc = "divide", !.i = 0])
    /\ UNCHANGED <<fpc, finput, fresult>>
    /\ UNCHANGED <<clsVars, pkVars, loopVars, synVars>>

\* One iteration of the divide loop: even[i] = data[i * 2];
\* odd[i] = data[i * 2 + 1].  An index outside its array is undefined.
FftDivide ==
    /\ fpc = "run"
    /\ Top.pc = "divide"
    /\ Top.i < HalfOf(Top.N)
    /\ LET f == Top
           i == f.i
           used == f.used \cup {i * 2, i * 2 + 1}
           usedHalf == f.usedHalf \cup {i}
       IN  IF i * 2 + 1 < Len(f.data) /\ i < Len(f.even)
           THEN /\ fstack' = WithTop([f EXCEPT !.even[i + 1] = f.data[i * 2 + 1],
                                               !.odd[i + 1] = f.data[i * 2 + 2],
                                               !.i = i + 1,
                                               !.used = used, !.usedHalf = usedHalf])
                /\ fpc' = fpc
           ELSE /\ fstack' = WithTop([f EXCEPT !.used = used, !.usedHalf = usedHalf])
                /\ fpc' = "undefined"
    /\ UNCHANGED <<finput, fresult>>
    /\ UNCHANGED <<clsVars, pkVars, loopVars, synVars>>

\* `fft(even);`
FftCallEven ==
    /\ fpc = "run"
    /\ Top.pc = "divide"
    /\ Top.i >= HalfOf(Top.N)
    /\ fstack' = Append(WithTop([Top EXCEPT !.pc = "even"]), Activation(Top.even))
    /\ UNCHANGED <<fpc, finput, fresult>>
    /\ UNCHANGED <<clsVars, pkVars, loopVars, synVars>>

\* `fft(odd);`
FftCallOdd ==
    /\ fpc = "run"
    /\ Top.pc = "callodd"
    /\ fstack' = Append(WithTop([Top EXCEPT !.pc = "odd"]), Activation(Top.odd))
    /\ UNCHANGED <<fpc, finput, fresult>>
    /\ UNCHANGED <<clsVars, pkVars, loopVars, synVars>>

\* One iteration of the combine loop: t = polar(...) * odd[k];
\* data[k] = even[k] + t; data[k + N / 2] = even[k] - t.
FftCombine ==
    /\ fpc = "run"
    /\ Top.pc = "combine"
    /\ Top.i < HalfOf(Top.N)
    /\ LET f == Top
           k == f.i
           used == f.used \cup {k, k + HalfOf(f.N)}
           usedHalf == f.usedHalf \cup {k}
       IN  IF k + HalfOf(f.N) < Len(f.data) /\ k < Len(f.even)
           THEN LET t == CMul(Polar(k, f.N), f.odd[k + 1])
                IN  /\ fstack' = WithTop(
                           [f EXCEPT !.data[k + 1] = CAdd(f.even[k + 1], t),
                                     !.data[k + HalfOf(f.N) + 1] = CSub(f.even[k + 1], t),
                                     !.i = k + 1,
                                     !.used = used, !.usedHalf = usedHalf])
                    /\ fpc' = fpc
           ELSE /\ fstack' = WithTop([f EXCEPT !.used = used, !.usedHalf = usedHalf])
                /\ fpc' = "undefined"
    /\ UNCHANGED <<finput, fresult>>
    /\ UNCHANGED <<clsVars, pkVars, loopVars, synVars>>

\* The combine loop is over: the call returns.
FftReturn ==
    /\ fpc = "run"
    /\ Top.pc = "combine"
    /\ Top.i >= HalfOf(Top.N)
    /\ fstack' = Returned(Top.data)
    /\ fresult' = IF Len(fstack) = 1 THEN Top.data ELSE fresult
    /\ fpc' = IF Len(fstack) = 1 THEN "done" ELSE fpc
    /\ UNCHANGED finput
    /\ UNCHANGED <<clsVars, pkVars, loopVars, synVars>>

\* Longest array handed to fft.
MaxFftLen == 21

\* The arrays of length N handed to fft: a tone, and a ramp with imaginary
\* parts.
FftInputs(N) ==
    {[k \in 1..N |-> <<WaveA[((k - 1) % 20) + 1], 0>>],
     [k \in 1..N |-> <<6 * k, 0 - 6 * k>>]}

InitFft ==
    /\ ClsIdle
    /\ PkIdle
    /\ LoopIdle
    /\ SynIdle
    /\ fpc = "run"
    /\ \E N \in 0..MaxFftLen : finput \in FftInputs(N)
    /\ fstack = <<Activation(finput)>>
    /\ fresult = <<>>

NextFft ==
    \/ FftBase
    \/ FftAllocate
    \/ FftDivide
    \/ FftCallEven
    \/ FftCallOdd
    \/ FftCombine
    \/ FftReturn

\* fft runs to its end: no statement of it waits for anything.
SpecFft == InitFft /\ [][NextFft]_vars /\ WF_vars(NextFft)

(***************************************************************************)
(* CLAIMS                                                                  *)
(***************************************************************************)

Classified == cpc = "classified"

\* The set of frequencies handed to the classifier.
Detected == {detectedFrequencies[k] : k \in 1..Len(detectedFrequencies)}

\* C1 (as claimed): for every byte b and every multi-tone sine_gen variant,
\* classifying the eight tones the variant selects for b returns b.
C1_RoundTripEveryVariant ==
    (Classified /\ variant \in Variants) => byteValue = srcByte

\* The round trip of the variant of part_002 alone (MSB-first, as the
\* classifier): it does return b for every byte.
RoundTripPart002 ==
    (Classified /\ variant = "part_002") => byteValue = srcByte

ToneOf(i, v) == IF v = 1 THEN HighTone(i) ELSE LowTone(i)

\* C7: a detected frequency exactly 50 Hz from a table tone is never accepted
\* as a match for that tone; a frequency one unit (0.1 Hz) inside the
\* tolerance, when it is the only detected frequency, gives the bit the
\* tone's value and is recorded as the matched frequency.
C7_ToleranceBoundary ==
    Classified =>
        \A i \in Positions : \A v \in {0, 1} :
            /\ \A f \in Detected :
                   Abs(f - ToneOf(i, v)) = Hz(Tolerance) => closestFreqs[i] # f
            /\ \A f \in Detected :
                   (/\ Detected = {f}
                    /\ Abs(f - ToneOf(i, v)) = Hz(Tolerance))
                   => (bits[i] = 0 /\ closestFreqs[i] = 0)
            /\ \A f \in Detected :
                   (/\ detectedFrequencies = <<f>>
                    /\ Abs(f - ToneOf(i, v)) = Hz(Tolerance) - 1)
                   => (bits[i] = v /\ closestFreqs[i] = f)

\* C7 witness: 350.0 Hz (50 Hz above the low tone of position 0) and 549.9 Hz
\* (49.9 Hz above its high tone) were classified: only the second matched.
C7_Witness ==
    /\ Classified
    /\ detectedFrequencies = <<LowTone(0) + Hz(Tolerance), HighTone(0) + Hz(Tolerance) - 1>>
    /\ bits[0] = 1
    /\ closestFreqs[0] = HighTone(0) + Hz(Tolerance) - 1

\* No detected frequency is strictly within the tolerance of a tone of i.
Unmatched(i) ==
    \A f \in Detected :
        /\ Abs(f - LowTone(i)) >= Hz(Tolerance)
        /\ Abs(f - HighTone(i)) >= Hz(Tolerance)

\* C10: a position with no detected frequency strictly within 50 Hz of either
\* of its tones gets bit 0 and no matched frequency, and the byte is still
\* returned, built from the bits of all positions.
C10_NoMatchDefault ==
    Classified =>
        /\ byteValue \in 0..255
        /\ \A i \in Positions :
               Unmatched(i) =>
                   /\ bits[i] = 0
                   /\ closestFreqs[i] = 0
                   /\ BitAt(byteValue, 7 - i) = 0
                   /\ \A j \in Positions \ {i} : BitAt(byteValue, 7 - j) = bits[j]

\* C10 witness: position 7 is unmatched while position 0 matched its high tone.
C10_Witness ==
    /\ Classified
    /\ Unmatched(7)
    /\ ~Unmatched(0)
    /\ bits[0] = 1
    /\ byteValue = 128

Ranked == ppc = "ranked"

\* The bin a returned frequency stands for.
BinOfFrequency(f) == (f * pkN) \div (pkRate * UnitsPerHz)

TopBins == [k \in 1..Len(topFrequencies) |-> BinOfFrequency(topFrequencies[k])]

\* The (magnitude, bin) pair of bin b of the spectrum handed in.
PairOfBin(b) == <<Re(fftResult[b + 1]) * Re(fftResult[b + 1])
                    + Im(fftResult[b + 1]) * Im(fftResult[b + 1]), b>>

\* (magnitude, bin) pair a ranks before pair b: larger magnitude, or equal
\* magnitude and higher bin.
RanksBefore(a, b) == a[1] > b[1] \/ (a[1] = b[1] /\ a[2] > b[2])

\* C9: for a window of N >= 2 bins, getTop8Frequencies returns
\* min(8, N/2 - 1) frequencies, each bin * sampleRate / N of a bin of
\* 1 .. N/2 - 1 (never bin 0), no bin twice, in descending order of magnitude
\* with the higher bin first among equal magnitudes, and no bin left out
\* ranks before a returned one.
C9_PeakRanking ==
    Ranked =>
        /\ Len(topFrequencies) = Min(8, pkN \div 2 - 1)
        /\ \A k \in 1..Len(topFrequencies) :
               /\ TopBins[k] \in 1..(pkN \div 2 - 1)
               /\ topFrequencies[k] * pkN = TopBins[k] * pkRate * UnitsPerHz
        /\ \A k \in 1..(Len(topFrequencies) - 1) :
               RanksBefore(PairOfBin(TopBins[k]), PairOfBin(TopBins[k + 1]))
        /\ \A b \in 1..(pkN \div 2 - 1) :
               (\A k \in 1..Len(topFrequencies) : TopBins[k] # b)
               => \A k \in 1..Len(topFrequencies) :
                      RanksBefore(PairOfBin(TopBins[k]), PairOfBin(b))

\* C9 witness: nine bins were ranked, eight returned, the first two returned
\* of equal magnitude (the higher bin first) and the last of a smaller one.
C9_Witness ==
    /\ Ranked
    /\ pkN \div 2 - 1 > 8
    /\ Len(topFrequencies) = 8
    /\ PairOfBin(TopBins[1])[1] = PairOfBin(TopBins[2])[1]
    /\ TopBins[1] > TopBins[2]
    /\ PairOfBin(TopBins[8])[1] < PairOfBin(TopBins[1])[1]

-----------------------------------------------------------------------------
(* Claims about the decode loop                                            *)

\* The reads of the source so far, as the numbers of the windows: window j
\* holds the frames (j - 1) * CHUNK_SIZE + 1 .. j * CHUNK_SIZE of the source
\* that exist.
WindowsRead == (filePos + CHUNK_SIZE - 1) \div CHUNK_SIZE

FramesOfWindow(j) ==
    SubSeq(file, (j - 1) * CHUNK_SIZE + 1, Min(j * CHUNK_SIZE, Len(file)))

\* The windows among the first n that reach the threshold, in source order.
RECURSIVE WindowsAtThreshold(_)
WindowsAtThreshold(n) ==
    IF n = 0 THEN <<>>
    ELSE IF Len(FramesOfWindow(n)) >= MIN_SAMPLES
         THEN Append(WindowsAtThreshold(n - 1), n)
         ELSE WindowsAtThreshold(n - 1)

\* The byte a decode step yields for the frames of one window alone, on a
\* buffer that held nothing before.
ByteOfWindow(frames) ==
    ByteOfSpectrum(
        Fft(ToComplex(Normalize(Zeros(CHUNK_SIZE * numChannels), frames, numChannels))),
        sampleRate)

\* The sum of the channel values of a frame as read.
RECURSIVE SumOf(_)
SumOf(frame) == IF frame = <<>> THEN 0 ELSE Head(frame) + SumOf(Tail(frame))

\* The last cycle decoded a window (its read reached the threshold).
JustDecoded == lpc = "loop" /\ readSamples >= MIN_SAMPLES

\* C3: a cycle whose read returns fewer frames than MIN_SAMPLES leaves the
\* message as it was, whatever the frames hold, and the loop goes on to the
\* next read.
C3_TailDrop ==
    [][(lpc = "loop" /\ ReadCount > 0 /\ ReadCount < MIN_SAMPLES)
        => (asciiMessage' = asciiMessage /\ lpc' = "loop" /\ filePos' = filePos + ReadCount)]_vars

\* C3 witness: after a decoded window, a read of fewer than MIN_SAMPLES
\* frames was skipped and the loop is about to read again.
C3_Witness ==
    /\ lpc = "loop"
    /\ readSamples \in 1..(MIN_SAMPLES - 1)
    /\ framesRead # <<>>
    /\ filePos = Len(file)
    /\ Len(asciiMessage) = 1

\* C4 (as claimed): for a read of r frames, MIN_SAMPLES <= r < CHUNK_SIZE,
\* and any channel count, one byte is appended and the window handed to the
\* transform is the r down-mixed frames read followed by CHUNK_SIZE - r zeros.
C4_ZeroPadLaw ==
    (JustDecoded /\ readSamples < CHUNK_SIZE) =>
        /\ Len(asciiMessage) = Len(WindowsAtThreshold(WindowsRead))
        /\ Len(window) = CHUNK_SIZE
        /\ \A i \in 1..readSamples : window[i] * numChannels = SumOf(framesRead[i])
        /\ \A i \in (readSamples + 1)..CHUNK_SIZE : window[i] = 0

\* The zero-pad law on one channel, where the code keeps it.
ZeroPadLawMono ==
    (JustDecoded /\ readSamples < CHUNK_SIZE /\ numChannels = 1) =>
        /\ Len(asciiMessage) = Len(WindowsAtThreshold(WindowsRead))
        /\ Len(window) = CHUNK_SIZE
        /\ \A i \in 1..readSamples : window[i] = framesRead[i][1]
        /\ \A i \in (readSamples + 1)..CHUNK_SIZE : window[i] = 0

\* C5 (as claimed): every down-mixed mono sample i of a decoded window is
\* the arithmetic mean of the channel values of frame i as they were read;
\* with identical channels it is that value.
C5_DownMixLaw ==
    JustDecoded =>
        \A i \in 1..readSamples : window[i] * numChannels = SumOf(framesRead[i])

\* C8: the message is the bytes decoded from the windows read so far that
\* reached MIN_SAMPLES, one byte each, in source order; so it only grows at its
\* end, by one byte per such cycle and by none otherwise, and at EOF it holds
\* one byte per such window of the source.
C8_MessageGrowthAndOrder ==
    /\ lpc \in {"loop", "done"} =>
           LET ws == WindowsAtThreshold(WindowsRead)
           IN  /\ Len(asciiMessage) = Len(ws)
               /\ \A j \in 1..Len(ws) : asciiMessage[j] = ByteOfWindow(FramesOfWindow(ws[j]))
    /\ lpc = "done" => filePos = Len(file)

\* C8 witness: at EOF of a source of two full windows that decode to
\* different bytes, followed by a tail that was skipped.
C8_Witness ==
    /\ lpc = "done"
    /\ Len(file) \in (2 * CHUNK_SIZE + 1)..(2 * CHUNK_SIZE + MIN_SAMPLES - 1)
    /\ Len(asciiMessage) = 2
    /\ asciiMessage[1] # asciiMessage[2]

-----------------------------------------------------------------------------
(* The synthesizer's parsers                                               *)

\* The message without the characters that are neither '0' nor '1'.
StripInvalid(m) == SelectSeq(m, LAMBDA c : c \in {"0", "1"})

MessageParsed == spc \in {"plan", "threw"}

\* C11: a character of the message other than '0' and '1' is ignored and
\* synthesis goes on: with every variant, the bits or bytes the parser
\* returns are those it returns for the message with these characters
\* removed, and the parser does not throw.
C11_InvalidCharsIgnored ==
    MessageParsed =>
        /\ spc # "threw"
        /\ bytes = ParseMessage(synVariant, StripInvalid(msg)).bytes

\* The same for the single-tone variant alone (binary_to_bits).
InvalidCharsIgnoredSingleTone ==
    (MessageParsed /\ synVariant = "single_tone") =>
        /\ spc # "threw"
        /\ bytes = ParseMessage(synVariant, StripInvalid(msg)).bytes

-----------------------------------------------------------------------------
(* The synthesizer's sample count and byte index                           *)

WaveSized == spc \in {"render", "written", "failed"}

\* round(n * rate / persec) for non-negative operands: to the nearest
\* integer, halves upwards.
RoundDiv(a, b) == (2 * a + b) \div (2 * b)

\* C12: the number of samples is round(byteCount * sampleRate /
\* bytesPerSecond), rounded to the nearest and not truncated; the header's
\* data size is twice that count and wav_size is 36 more.
C12_SampleCountRounded ==
    WaveSized =>
        /\ num_samples = RoundDiv(Len(bytes) * sample_rate, bps)
        /\ data_bytes = 2 * num_samples
        /\ wav_size = 36 + data_bytes

\* What the code computes instead: the count truncated.
SampleCountTruncated ==
    WaveSized =>
        /\ num_samples * bps <= Len(bytes) * sample_rate
        /\ Len(bytes) * sample_rate < (num_samples + 1) * bps
        /\ data_bytes = 2 * num_samples
        /\ wav_size = 36 + data_bytes

\* C13: for every sample index n below the sample count, the byte index is
\* floor(t / byteDuration) clamped to numBytes - 1; it lies in
\* 0 .. numBytes - 1, so bytes is never read out of range (no sample at all
\* is rendered for an empty message), it never decreases with n, and every
\* sample, the late ones included, carries the tones of its byte, not
\* silence.
C13_ByteIndexClamped ==
    /\ spc # "undefined"
    /\ Len(byte_indices) = sample_i
    /\ Len(samples) = sample_i
    /\ sample_i <= num_samples
    /\ (spc \in {"written", "failed"}) => sample_i = num_samples
    /\ (MessageParsed /\ bytes = <<>>) => num_samples = 0
    /\ \A n \in 1..Len(byte_indices) :
          /\ byte_indices[n] = Min(((n - 1) * bps) \div sample_rate, Len(bytes) - 1)
          /\ byte_indices[n] \in 0..(Len(bytes) - 1)
          /\ n > 1 => byte_indices[n - 1] <= byte_indices[n]
          /\ samples[n] = TonesOf(synVariant, bytes[byte_indices[n] + 1])
          /\ samples[n] # <<>>

\* A finished run over more than one byte, whose samples start on the first
\* byte and end on the last one.
C13_Witness ==
    /\ spc = "written"
    /\ Len(bytes) > 1
    /\ num_samples > 1
    /\ byte_indices[1] = 0
    /\ byte_indices[num_samples] = Len(bytes) - 1

\* With the truncated sample count no sample lies past the intended
\* duration: the clamp never changes an index.
ClampNeverFires == clamped = {}

-----------------------------------------------------------------------------
(* Memoryless decoding                                                     *)

\* What a buffer of n values may hold when a cycle starts: nothing, or a
\* non-zero value at every index.
StaleBuffers(n) == {Zeros(n), [k \in 1..n |-> 6 * k]}

\* C14: the input handed to the transform, and the byte decoded from it,
\* depend only on the frames read in the same cycle: whatever buffer held
\* before the read (samples of earlier windows), the window is the one the
\* frames read give, and the byte appended is the byte of these frames.
C14_MemorylessDecoding ==
    JustDecoded =>
        /\ Len(window) = CHUNK_SIZE
        /\ \A stale \in StaleBuffers(CHUNK_SIZE * numChannels) :
              window = SubSeq(Normalize(stale, framesRead, numChannels), 1, CHUNK_SIZE)
        /\ asciiMessage[Len(asciiMessage)] = ByteOfWindow(framesRead)

\* C14 witness: a window shorter than CHUNK_SIZE was decoded right after a
\* full one whose samples past the short read were not zero, and the input
\* of the transform holds zeros there.
C14_Witness ==
    /\ JustDecoded
    /\ readSamples < CHUNK_SIZE
    /\ filePos = CHUNK_SIZE + readSamples
    /\ \E k \in (readSamples + 1)..CHUNK_SIZE :
          /\ file[k][1] # 0
          /\ window[k] = 0

-----------------------------------------------------------------------------
(* Order of the detected frequencies                                       *)

\* detectedFrequencies with the entries a and b exchanged.
Swapped(a, b) ==
    [k \in 1..Len(detectedFrequencies) |->
        IF k = a THEN detectedFrequencies[b]
        ELSE IF k = b THEN detectedFrequencies[a]
        ELSE detectedFrequencies[k]]

\* C15 (as claimed): the byte is the same for every permutation of the list
\* of detected frequencies, here for every exchange of two entries (which
\* generate the permutations), ties between the low and the high tone of a
\* position included.
C15_OrderIndependent ==
    Classified =>
        \A a, b \in 1..Len(detectedFrequencies) :
            FrequenciesToByteValue(Swapped(a, b)) = byteValue

\* The distances below the tolerance from the detected frequencies to a tone.
NearDistances(tone) ==
    {d \in {Abs(f - tone) : f \in Detected} : d < Hz(Tolerance)}

Least(D) == CHOOSE d \in D : \A e \in D : d <= e

\* Position i is tied: its low and its high tone have a detected frequency
\* at the same, smallest distance.
Tied(i) ==
    /\ NearDistances(LowTone(i)) # {}
    /\ NearDistances(HighTone(i)) # {}
    /\ Least(NearDistances(LowTone(i))) = Least(NearDistances(HighTone(i)))

\* The bit of position i as the set of detected frequencies gives it: the
\* tone with the nearest detected frequency, 0 without any.
BitOfSet(i) ==
    LET d0 == NearDistances(LowTone(i))
        d1 == NearDistances(HighTone(i))
    IN  IF d1 = {} THEN 0
        ELSE IF d0 = {} THEN 1
        ELSE IF Least(d1) < Least(d0) THEN 1 ELSE 0

\* At a tied position, the bit of the first frequency of the list at the
\* smallest distance.
BitOfFirstNearest(i) ==
    LET least == Least(NearDistances(LowTone(i)))
        first == CHOOSE k \in 1..Len(detectedFrequencies) :
                    /\ Abs(detectedFrequencies[k] - LowTone(i)) = least
                       \/ Abs(detectedFrequencies[k] - HighTone(i)) = least
                    /\ \A j \in 1..(k - 1) :
                          /\ Abs(detectedFrequencies[j] - LowTone(i)) # least
                          /\ Abs(detectedFrequencies[j] - HighTone(i)) # least
    IN  IF Abs(detectedFrequencies[first] - HighTone(i)) = least THEN 1 ELSE 0

\* C15 (amended): the bit of a position that is not tied depends only on
\* the set of detected frequencies, so without a tied position the byte is
\* the same for every order of the list; at a tied position the frequency
\* that comes first in the list decides.
C15_OrderIndependentUnlessTied ==
    Classified =>
        /\ \A i \in Positions :
              bits[i] = IF Tied(i) THEN BitOfFirstNearest(i) ELSE BitOfSet(i)
        /\ (\A i \in Positions : ~Tied(i)) =>
              \A a, b \in 1..Len(detectedFrequencies) :
                  FrequenciesToByteValue(Swapped(a, b)) = byteValue

\* C15 witness: two detected frequencies, the first 1 Hz above the high tone
\* of position 0 and the second 1 Hz above its low tone: bit 0 is 1, and 0
\* in the other order.
C15_Witness ==
    /\ Classified
    /\ detectedFrequencies = <<HighTone(0) + Hz(1), LowTone(0) + Hz(1)>>
    /\ Tied(0)
    /\ bits[0] = 1
    /\ ClassifyBits(Swapped(1, 2))[0] = 0

-----------------------------------------------------------------------------
(* The structure of fft                                                    *)

\* An activation is sound: its array keeps its length, even and odd hold
\* N / 2 elements once allocated, every index used is inside its array, and
\* for an odd N above 1 the last element was not used and is as on entry.
ActivationSound(f) ==
    /\ Len(f.data) = f.N
    /\ Len(f.data) = Len(f.entry)
    /\ f.pc # "entry" => (Len(f.even) = f.N \div 2 /\ Len(f.odd) = f.N \div 2)
    /\ f.used \subseteq 0..(f.N - 1)
    /\ f.usedHalf \subseteq 0..(Len(f.even) - 1)
    /\ (f.N > 1 /\ f.N % 2 = 1) =>
          /\ (f.N - 1) \notin f.used
          /\ f.data[f.N] = f.entry[f.N]

FftSafe ==
    /\ fpc # "undefined"
    /\ \A d \in 1..Len(fstack) : ActivationSound(fstack[d])
    /\ fpc = "done" =>
          /\ fstack = <<>>
          /\ Len(fresult) = Len(finput)
          /\ (Len(finput) > 1 /\ Len(finput) % 2 = 1) =>
                fresult[Len(finput)] = finput[Len(finput)]

\* C16: for every length N >= 0, a power of two or not, fft ends, uses no
\* index outside 0 .. N - 1 of an array, and leaves the length of the array
\* N; at a level whose length is odd and above 1 the last element is
\* neither read nor written.
C16_FftStructuralSafety == []FftSafe /\ <>(fpc = "done")

\* C16 witness: fft returned from an array of odd length whose halves are of
\* odd length too (such as 11, 5, 2, 1); the last element is as it was and
\* the rest is not.
C16_Witness ==
    /\ fpc = "done"
    /\ Len(finput) % 2 = 1
    /\ (Len(finput) \div 2) % 2 = 1
    /\ Len(finput) \div 2 > 1
    /\ fresult[Len(finput)] = finput[Len(finput)]
    /\ fresult # finput

\* The array the statements leave is the one the operator Fft gives.
FftStepsAgree == fpc = "done" => fresult = Fft(finput)

=============================================================================
